---------------------------- MODULE Spec2Model ----------------------------
(***************************************************************************)
(* A model of src/blockchain.js: Transaction, Block (calculateHash,        *)
(* mineBlock) and Blockchain (addTransaction, minePendingTransactions,     *)
(* validateChain, getBalance, getFormatted).                               *)
(*                                                                         *)
(* JavaScript values are records [t, s, n]: t is the type tag, s the       *)
(* string's content, n the number's value.  JavaScript strings that are    *)
(* concatenated or hashed are sequences of characters.  Arrays are held by *)
(* reference: a field holding an array holds its key in `lists`.           *)
(***************************************************************************)
EXTENDS Integers, Sequences, FiniteSets, TLC

(***************************************************************************)
(* Bounds of the model.                                                    *)
(***************************************************************************)
MaxChain == 3
MaxPool == 2
MaxTime == 2
MaxTamper == 1
DigestLen == 5
MaxNonce == 8
MaxWrites == 2

(***************************************************************************)
(* JavaScript values.                                                      *)
(***************************************************************************)
Str(s) == [t |-> "string", s |-> s, n |-> 0]
Num(n) == [t |-> "number", s |-> "", n |-> n]
NaN == [t |-> "NaN", s |-> "", n |-> 0]
Null == [t |-> "null", s |-> "", n |-> 0]
Undefined == [t |-> "undefined", s |-> "", n |-> 0]

\* !v
Falsy(v) ==
    \/ v.t \in {"null", "undefined", "NaN"}
    \/ v.t = "string" /\ v.s = ""
    \/ v.t = "number" /\ v.n = 0

\* ToNumber(v) for the values an amount can hold
ToNumber(v) ==
    CASE v.t = "number" -> v
      [] v.t = "null" -> Num(0)
      [] OTHER -> NaN

\* v <= 0: false whenever ToNumber(v) is NaN
LessEqZero(v) == ToNumber(v).t = "number" /\ ToNumber(v).n <= 0

\* v > 0: false whenever ToNumber(v) is NaN
GreaterZero(v) == ToNumber(v).t = "number" /\ ToNumber(v).n > 0

\* x + y and x - y on numbers (balance is always a number or NaN)
JsAdd(x, y) ==
    IF ToNumber(x).t = "NaN" \/ ToNumber(y).t = "NaN" THEN NaN
    ELSE Num(ToNumber(x).n + ToNumber(y).n)

JsSub(x, y) ==
    IF ToNumber(x).t = "NaN" \/ ToNumber(y).t = "NaN" THEN NaN
    ELSE Num(ToNumber(x).n - ToNumber(y).n)

\* x === y
StrictEq(x, y) == x.t # "NaN" /\ x = y

(***************************************************************************)
(* Strings: sequences of characters.                                       *)
(***************************************************************************)
Digits == <<"0", "1", "2", "3", "4", "5", "6", "7", "8", "9">>

RECURSIVE NatToString(_)
NatToString(n) ==
    IF n < 10 THEN <<Digits[n + 1]>>
    ELSE NatToString(n \div 10) \o <<Digits[(n % 10) + 1]>>

\* Number.prototype.toString of an integer
NumToString(n) == IF n < 0 THEN <<"-">> \o NatToString(-n) ELSE NatToString(n)

\* '0'.repeat(d)
Repeat0(d) == [k \in 1..d |-> "0"]

\* s.substring(0, d)
Substring0(s, d) == SubSeq(s, 1, IF d < Len(s) THEN d ELSE Len(s))

(***************************************************************************)
(* JSON.stringify of the transaction array.  A property whose value is     *)
(* undefined is left out; NaN is written null, as null is.                 *)
(***************************************************************************)
JsonValue(v) ==
    CASE v.t = "string" -> IF v.s = "" THEN <<"\"", "\"">> ELSE <<"\"", v.s, "\"">>
      [] v.t = "number" -> NumToString(v.n)
      [] OTHER -> <<"null">>

JsonMember(key, v) ==
    IF v.t = "undefined" THEN <<>> ELSE << <<"\"", key, "\"", ":">> \o JsonValue(v) >>

RECURSIVE JoinComma(_)
JoinComma(parts) ==
    IF parts = <<>> THEN <<>>
    ELSE IF Len(parts) = 1 THEN parts[1]
    ELSE parts[1] \o <<",">> \o JoinComma(Tail(parts))

JsonObject(tx) ==
    <<"{">> \o JoinComma(JsonMember("sender", tx.sender)
                          \o JsonMember("recipient", tx.recipient)
                          \o JsonMember("amount", tx.amount)
                          \o JsonMember("timestamp", tx.timestamp)) \o <<"}">>

JsonStringify(txs) ==
    <<"[">> \o JoinComma([k \in 1..Len(txs) |-> JsonObject(txs[k])]) \o <<"]">>

(***************************************************************************)
(* SHA-256, hex digest.  The digest is modelled collision-free: its first  *)
(* DigestLen characters are hex digits computed from the input by a mixing *)
(* function (they are what the difficulty prefix reads; the function is    *)
(* chosen so that a few nonces reach a qualifying digest), and the rest of *)
(* the digest is stood for by the input itself between "<" and ">".        *)
(***************************************************************************)
Alphabet ==
    <<"0", "1", "2", "3", "4", "5", "6", "7", "8", "9", "-", "[", "]", "{", "}",
      ",", ":", "\"", "null", "sender", "recipient", "amount", "timestamp",
      "A", "B", "M", "<", ">", "f", "Alice", "Bob", "Charlie", "MinerX">>

CharCode == [c \in {Alphabet[k] : k \in 1..Len(Alphabet)} |->
                CHOOSE k \in 1..Len(Alphabet) : Alphabet[k] = c]

\* The mixing function: a value in 0..3 computed from every character of
\* s[lo..hi]
RECURSIVE Mix(_, _, _)
Mix(s, lo, hi) ==
    IF lo > hi THEN 0
    ELSE IF lo = hi THEN CharCode[s[lo]] % 4
    ELSE (Mix(s, lo, (lo + hi) \div 2) + Mix(s, ((lo + hi) \div 2) + 1, hi)) % 4

\* The number of leading zeros of the digest whose mixed value is m
LeadingZeros(m) ==
    CASE m = 0 -> DigestLen
      [] m = 1 -> DigestLen - 1
      [] m = 2 -> 1
      [] OTHER -> 0

HexDigits(m) == [k \in 1..DigestLen |-> IF k <= LeadingZeros(m) THEN "0" ELSE "f"]

Sha256Hex(input) == HexDigits(Mix(input, 1, Len(input))) \o <<"<">> \o input \o <<">">>

(***************************************************************************)
(* Transaction and Block.                                                  *)
(***************************************************************************)
\* new Transaction(sender, recipient, amount); id is the object's identity,
\* which no method reads
Transaction(sender, recipient, amount, time, id) ==
    [sender |-> sender, recipient |-> recipient, amount |-> amount,
     timestamp |-> Num(time), id |-> id]

\* Block.calculateHash; L is the store of arrays
calculateHash(b, L) ==
    Sha256Hex(NumToString(b.index) \o NumToString(b.timestamp)
              \o JsonStringify(L[b.transactions]) \o b.previousHash
              \o NumToString(b.nonce))

Block(index, timestamp, transactions, previousHash, L) ==
    LET b == [index |-> index, timestamp |-> timestamp,
              transactions |-> transactions, previousHash |-> previousHash,
              nonce |-> 0, hash |-> <<>>]
    IN  [b EXCEPT !.hash = calculateHash(b, L)]

\* the body of mineBlock's loop: this.nonce++; this.hash = this.calculateHash()
mineStep(b, L) ==
    [b EXCEPT !.nonce = b.nonce + 1,
              !.hash = calculateHash([b EXCEPT !.nonce = b.nonce + 1], L)]

RECURSIVE mineBlock_OneShort(_, _, _)
mineBlock_OneShort(b, d, L) ==
    IF Substring0(b.hash, d - 1) # Repeat0(d - 1)
    THEN mineBlock_OneShort(mineStep(b, L), d, L)
    ELSE b

RECURSIVE mineBlock_IncrementFirst(_, _, _)
mineBlock_IncrementFirst(b, d, L) ==
    IF Substring0(mineStep(b, L).hash, d) # Repeat0(d)
    THEN mineBlock_IncrementFirst(mineStep(b, L), d, L)
    ELSE mineStep(b, L)

\* Block.mineBlock: the block as the loop leaves it
RECURSIVE mineBlock(_, _, _)
mineBlock(b, d, L) ==
    IF Substring0(b.hash, d) # Repeat0(d) THEN mineBlock(mineStep(b, L), d, L)
    ELSE b

(***************************************************************************)
(* Blockchain.  A ledger S is [chain, pendingTransactions, lists,          *)
(* difficulty, miningReward]; chain[1] is the genesis block (index 0).     *)
(***************************************************************************)
DefaultDifficulty == 4
DefaultMiningReward == 100

createGenesisBlock_NoSentinel(time) == Block(0, time, 1, <<>>, << <<>> >>)

\* Blockchain._createGenesisBlock, with the empty array stored at key 1
createGenesisBlock(time) == Block(0, time, 1, <<"0">>, << <<>> >>)

\* Blockchain.constructor
Blockchain(time) ==
    [chain |-> <<createGenesisBlock(time)>>,
     difficulty |-> DefaultDifficulty,
     pendingTransactions |-> 2,
     lists |-> << <<>>, <<>> >>,
     miningReward |-> DefaultMiningReward]

getLastBlock_First(S) == S.chain[1]

getLastBlock(S) == S.chain[Len(S.chain)]

\* the test of addTransaction that throws
InvalidTransaction(tx) ==
    Falsy(tx.sender) \/ Falsy(tx.recipient) \/ LessEqZero(tx.amount)

addTransaction_Unshift(S, tx) ==
    [S EXCEPT !.lists[S.pendingTransactions] = <<tx>> \o @]

\* Blockchain.addTransaction when it does not throw
addTransaction(S, tx) ==
    [S EXCEPT !.lists[S.pendingTransactions] = Append(@, tx)]

minePendingTransactions_RewardNow(S, minerAddress, t1, t2, id) ==
    LET reward == Transaction(Null, minerAddress, Num(S.miningReward), t1, id)
        withReward == [S.lists EXCEPT ![S.pendingTransactions] = Append(@, reward)]
        block == mineBlock(Block(Len(S.chain), t1, S.pendingTransactions,
                                 getLastBlock(S).hash, withReward),
                           S.difficulty, withReward)
    IN  [S EXCEPT !.chain = Append(@, block),
                  !.lists = Append(withReward, <<>>),
                  !.pendingTransactions = Len(S.lists) + 1]

minePendingTransactions_Repair(S, minerAddress, t1, t2, id) ==
    LET last == [getLastBlock(S) EXCEPT !.hash = calculateHash(getLastBlock(S), S.lists)]
        block == mineBlock(Block(Len(S.chain), t1, S.pendingTransactions,
                                 last.hash, S.lists),
                           S.difficulty, S.lists)
    IN  [S EXCEPT !.chain = Append([@ EXCEPT ![Len(S.chain)] = last], block),
                  !.lists = Append(@, <<Transaction(Null, minerAddress,
                                                    Num(S.miningReward), t2, id)>>),
                  !.pendingTransactions = Len(S.lists) + 1]

minePendingTransactions_KeepPool(S, minerAddress, t1, t2, id) ==
    LET block == mineBlock(Block(Len(S.chain), t1, S.pendingTransactions,
                                 getLastBlock(S).hash, S.lists),
                           S.difficulty, S.lists)
    IN  [S EXCEPT !.chain = Append(@, block),
                  !.lists = Append(@, <<Transaction(Null, minerAddress,
                                                    Num(S.miningReward), t2, id)>>
                                      \o S.lists[S.pendingTransactions]),
                  !.pendingTransactions = Len(S.lists) + 1]

minePendingTransactions_SameList(S, minerAddress, t1, t2, id) ==
    LET block == mineBlock(Block(Len(S.chain), t1, S.pendingTransactions,
                                 getLastBlock(S).hash, S.lists),
                           S.difficulty, S.lists)
    IN  [S EXCEPT !.chain = Append(@, block),
                  !.lists[S.pendingTransactions] =
                       <<Transaction(Null, minerAddress, Num(S.miningReward), t2, id)>>]

minePendingTransactions_IndexFromOne(S, minerAddress, t1, t2, id) ==
    LET block == mineBlock(Block(Len(S.chain) + 1, t1, S.pendingTransactions,
                                 getLastBlock(S).hash, S.lists),
                           S.difficulty, S.lists)
    IN  [S EXCEPT !.chain = Append(@, block),
                  !.lists = Append(@, <<Transaction(Null, minerAddress,
                                                    Num(S.miningReward), t2, id)>>),
                  !.pendingTransactions = Len(S.lists) + 1]

\* Blockchain.minePendingTransactions; t1 and t2 are its two readings of the
\* clock and id the identity of the reward it constructs
minePendingTransactions(S, minerAddress, t1, t2, id) ==
    LET block == mineBlock(Block(Len(S.chain), t1, S.pendingTransactions,
                                 getLastBlock(S).hash, S.lists),
                           S.difficulty, S.lists)
    IN  [S EXCEPT !.chain = Append(@, block),
                  !.lists = Append(@, <<Transaction(Null, minerAddress,
                                                    Num(S.miningReward), t2, id)>>),
                  !.pendingTransactions = Len(S.lists) + 1]

RECURSIVE validateFrom_LinkFirst(_, _)
validateFrom_LinkFirst(S, i) ==
    IF i > Len(S.chain) THEN [val |-> TRUE, log |-> <<>>]
    ELSE IF S.chain[i].previousHash # S.chain[i - 1].hash
    THEN [val |-> FALSE,
          log |-> <<[msg |-> "has broken chain link", index |-> i - 1]>>]
    ELSE IF S.chain[i].hash # calculateHash(S.chain[i], S.lists)
    THEN [val |-> FALSE,
          log |-> <<[msg |-> "data corrupted - hash mismatch", index |-> i - 1]>>]
    ELSE validateFrom_LinkFirst(S, i + 1)

\* Blockchain.validateChain from block i on: the value returned and what is logged
RECURSIVE validateFrom(_, _)
validateFrom(S, i) ==
    IF i > Len(S.chain) THEN [val |-> TRUE, log |-> <<>>]
    ELSE IF S.chain[i].hash # calculateHash(S.chain[i], S.lists)
    THEN [val |-> FALSE,
          log |-> <<[msg |-> "data corrupted - hash mismatch", index |-> i - 1]>>]
    ELSE IF S.chain[i].previousHash # S.chain[i - 1].hash
    THEN [val |-> FALSE,
          log |-> <<[msg |-> "has broken chain link", index |-> i - 1]>>]
    ELSE validateFrom(S, i + 1)

validateChain(S) == validateFrom(S, 2)

balanceStep_NoDebit(balance, tx, address) ==
    IF StrictEq(tx.recipient, address) THEN JsAdd(balance, tx.amount) ELSE balance

\* the inner loop body of getBalance
balanceStep(balance, tx, address) ==
    LET b1 == IF StrictEq(tx.sender, address) THEN JsSub(balance, tx.amount)
              ELSE balance
    IN  IF StrictEq(tx.recipient, address) THEN JsAdd(b1, tx.amount) ELSE b1

RECURSIVE balanceOver(_, _, _, _)
balanceOver(txs, k, balance, address) ==
    IF k > Len(txs) THEN balance
    ELSE balanceOver(txs, k + 1, balanceStep(balance, txs[k], address), address)

RECURSIVE balanceFrom(_, _, _, _)
balanceFrom(S, i, balance, address) ==
    IF i > Len(S.chain) THEN balance
    ELSE balanceFrom(S, i + 1,
                     balanceOver(S.lists[S.chain[i].transactions], 1, balance, address),
                     address)

\* Blockchain.getBalance
getBalance(S, address) == balanceFrom(S, 1, Num(0), address)

\* new Date(t).toLocaleString()
LocaleString(t) == <<"date">> \o NumToString(t)

\* Blockchain.getFormatted
getFormatted(S) ==
    [i \in 1..Len(S.chain) |->
        [index |-> S.chain[i].index,
         timestamp |-> LocaleString(S.chain[i].timestamp),
         transactions |-> S.chain[i].transactions,
         previousHash |-> S.chain[i].previousHash,
         hash |-> S.chain[i].hash,
         nonce |-> S.chain[i].nonce]]

\* runDemo, up to its second minePendingTransactions: the ledger it has built
runDemo ==
    LET d1 == addTransaction(Blockchain(1),
                             Transaction(Str("Alice"), Str("Bob"), Num(50), 1, 1))
        d2 == addTransaction(d1, Transaction(Str("Bob"), Str("Charlie"), Num(25), 1, 2))
        d3 == minePendingTransactions(d2, Str("MinerX"), 1, 2, 3)
        d4 == addTransaction(d3, Transaction(Str("Charlie"), Str("Alice"), Num(10), 2, 4))
        d5 == addTransaction(d4, Transaction(Str("Alice"), Str("MinerX"), Num(15), 2, 5))
    IN  minePendingTransactions(d5, Str("MinerX"), 2, 2, 6)

(***************************************************************************)
(* The state: the ledger's fields; the clock (the last value Date.now()    *)
(* returned); what the last call was given, returned and logged; and for   *)
(* the statements about the ledger's history, the number of Transaction    *)
(* objects the ledger holds, the difficulty each block was mined with, and *)
(* the writes made to the ledger's objects from outside its methods.       *)
(***************************************************************************)
VARIABLES chain, pendingTransactions, lists, difficulty, miningReward, now, ret,
          nextId, minedWith, tamper

vars == <<chain, pendingTransactions, lists, difficulty, miningReward, now, ret,
          nextId, minedWith, tamper>>

ledgerVars == <<chain, pendingTransactions, lists, difficulty, miningReward>>

ledger ==
    [chain |-> chain, difficulty |-> difficulty,
     pendingTransactions |-> pendingTransactions, lists |-> lists,
     miningReward |-> miningReward]

\* the pool's array
pool == lists[pendingTransactions]

\* the transactions array of the block at index i (0-based, as in the source)
blockTxs(i) == lists[chain[i + 1].transactions]

Install(S) ==
    /\ chain' = S.chain
    /\ difficulty' = S.difficulty
    /\ pendingTransactions' = S.pendingTransactions
    /\ lists' = S.lists
    /\ miningReward' = S.miningReward

Ret(op, arg, threw, val, bal, log, out) ==
    [op |-> op, arg |-> arg, threw |-> threw, val |-> val, bal |-> bal,
     log |-> log, out |-> out]

Init ==
    /\ now = 1
    /\ chain = Blockchain(1).chain
    /\ difficulty = Blockchain(1).difficulty
    /\ pendingTransactions = Blockchain(1).pendingTransactions
    /\ lists = Blockchain(1).lists
    /\ miningReward = Blockchain(1).miningReward
    /\ ret = Ret("constructor", <<>>, FALSE, TRUE, Num(0), <<>>, <<>>)
    /\ nextId = 1
    /\ minedWith = <<>>
    /\ tamper = <<>>

(***************************************************************************)
(* The public operations.                                                  *)
(***************************************************************************)
\* coin.addTransaction(new Transaction(sender, recipient, amount))
AddTransaction(sender, recipient, amount, t) ==
    LET tx == Transaction(sender, recipient, amount, t, nextId)
    IN  /\ now' = t
        /\ IF InvalidTransaction(tx)
           THEN /\ ret' = Ret("addTransaction", tx, TRUE, FALSE, Num(0), <<>>, <<>>)
                /\ UNCHANGED <<ledgerVars, nextId, minedWith, tamper>>
           ELSE /\ Len(pool) < MaxPool
                /\ Install(addTransaction(ledger, tx))
                /\ ret' = Ret("addTransaction", tx, FALSE, TRUE, Num(0), <<>>, <<>>)
                /\ nextId' = nextId + 1
                /\ UNCHANGED <<minedWith, tamper>>

\* coin.addTransaction(tx) with tx an object the ledger holds already, the
\* k-th of list l: no Transaction is constructed and the object is shared
AddTransactionAgain(l, k) ==
    /\ IF InvalidTransaction(lists[l][k])
       THEN /\ ret' = Ret("addTransaction", lists[l][k], TRUE, FALSE, Num(0), <<>>, <<>>)
            /\ UNCHANGED ledgerVars
       ELSE /\ Len(pool) < MaxPool
            /\ Install(addTransaction(ledger, lists[l][k]))
            /\ ret' = Ret("addTransaction", lists[l][k], FALSE, TRUE, Num(0), <<>>, <<>>)
    /\ UNCHANGED <<now, nextId, minedWith, tamper>>

\* coin.minePendingTransactions(minerAddress).  With a difficulty above the
\* digest's length the loop of mineBlock never ends and the call never returns.
MinePendingTransactions(minerAddress, t1, t2) ==
    /\ Len(chain) < MaxChain
    /\ difficulty <= DigestLen
    /\ LET mined == minePendingTransactions(ledger, minerAddress, t1, t2, nextId)
       IN  Install(mined)
    /\ now' = t2
    /\ ret' = Ret("minePendingTransactions", minerAddress, FALSE, TRUE, Num(0),
                  <<[msg |-> "Mining block", index |-> Len(chain)],
                    [msg |-> "mined! Hash", index |-> Len(chain)]>>, <<>>)
    /\ nextId' = nextId + 1
    /\ minedWith' = Append(minedWith, difficulty)
    /\ UNCHANGED tamper

ValidateChain_Repair ==
    /\ LET r == validateChain(ledger)
       IN  /\ ret' = Ret("validateChain", <<>>, FALSE, r.val, Num(0), r.log, <<>>)
           /\ chain' = IF r.val THEN chain
                       ELSE [chain EXCEPT ![r.log[1].index + 1].hash =
                                calculateHash(chain[r.log[1].index + 1], lists)]
    /\ UNCHANGED <<pendingTransactions, lists, difficulty, miningReward, now,
                   nextId, minedWith, tamper>>

\* coin.validateChain()
ValidateChain ==
    /\ LET r == validateChain(ledger)
       IN  ret' = Ret("validateChain", <<>>, FALSE, r.val, Num(0), r.log, <<>>)
    /\ UNCHANGED <<ledgerVars, now, nextId, minedWith, tamper>>

\* coin.getBalance(address)
GetBalance(address) ==
    /\ ret' = Ret("getBalance", address, FALSE, TRUE, getBalance(ledger, address),
                  <<>>, <<>>)
    /\ UNCHANGED <<ledgerVars, now, nextId, minedWith, tamper>>

\* coin.getFormatted()
GetFormatted ==
    /\ ret' = Ret("getFormatted", <<>>, FALSE, TRUE, Num(0), <<>>,
                  getFormatted(ledger))
    /\ UNCHANGED <<ledgerVars, now, nextId, minedWith, tamper>>

(***************************************************************************)
(* Writes from outside the ledger's methods: runDemo's                     *)
(* coin.chain[1].transactions[0].amount = 100, and the setting of the      *)
(* difficulty field.                                                       *)
(***************************************************************************)
TamperAmount(i, k, v) ==
    /\ Len(tamper) < MaxTamper
    /\ blockTxs(i)[k].amount # v
    /\ lists' = [l \in DOMAIN lists |->
                    [j \in DOMAIN lists[l] |->
                        IF lists[l][j].id = blockTxs(i)[k].id
                        THEN [lists[l][j] EXCEPT !.amount = v]
                        ELSE lists[l][j]]]
    /\ tamper' = Append(tamper, [field |-> "amount", block |-> i, pos |-> k,
                                 id |-> blockTxs(i)[k].id,
                                 old |-> blockTxs(i)[k].amount, new |-> v])
    /\ ret' = Ret("tamper", <<>>, FALSE, TRUE, Num(0), <<>>, <<>>)
    /\ UNCHANGED <<chain, pendingTransactions, difficulty, miningReward, now,
                   nextId, minedWith>>

\* a write from outside to the timestamp of block i (0 is the genesis block),
\* as runDemo writes to an amount
WriteTimestamp(i, t) ==
    /\ Len(tamper) < MaxWrites
    /\ chain[i + 1].timestamp # t
    /\ chain' = [chain EXCEPT ![i + 1].timestamp = t]
    /\ tamper' = Append(tamper, [field |-> "timestamp", block |-> i, pos |-> 0, id |-> 0,
                                 old |-> Num(chain[i + 1].timestamp), new |-> Num(t)])
    /\ ret' = Ret("tamper", <<>>, FALSE, TRUE, Num(0), <<>>, <<>>)
    /\ UNCHANGED <<pendingTransactions, lists, difficulty, miningReward, now,
                   nextId, minedWith>>

\* a write from outside to the index of block i
WriteIndex(i, v) ==
    /\ Len(tamper) < MaxWrites
    /\ chain[i + 1].index # v
    /\ chain' = [chain EXCEPT ![i + 1].index = v]
    /\ tamper' = Append(tamper, [field |-> "index", block |-> i, pos |-> 0, id |-> 0,
                                 old |-> Num(chain[i + 1].index), new |-> Num(v)])
    /\ ret' = Ret("tamper", <<>>, FALSE, TRUE, Num(0), <<>>, <<>>)
    /\ UNCHANGED <<pendingTransactions, lists, difficulty, miningReward, now,
                   nextId, minedWith>>

\* a write from outside that makes the stored hash of block i the hash of
\* its fields as they are now: chain[i].hash = chain[i].calculateHash()
WriteHash(i) ==
    /\ chain[i + 1].hash # calculateHash(chain[i + 1], lists)
    /\ chain' = [chain EXCEPT ![i + 1].hash = calculateHash(chain[i + 1], lists)]
    /\ ret' = Ret("tamper", <<>>, FALSE, TRUE, Num(0), <<>>, <<>>)
    /\ UNCHANGED <<pendingTransactions, lists, difficulty, miningReward, now,
                   nextId, minedWith, tamper>>

SetDifficulty(d) ==
    /\ difficulty' = d
    /\ ret' = Ret("setDifficulty", <<>>, FALSE, TRUE, Num(0), <<>>, <<>>)
    /\ UNCHANGED <<chain, pendingTransactions, lists, miningReward, now,
                   nextId, minedWith, tamper>>

(***************************************************************************)
(* The arguments the calls are tried with, and the specifications.         *)
(***************************************************************************)
Addresses == {Str("A"), Str("B"), Str("M")}
MinerInputs == {Str("M"), Null}

\* <<sender, recipient, amount>>
TxInputs ==
    {<<Str("A"), Str("B"), Num(1)>>, <<Str("A"), Str("A"), Num(1)>>,
     <<Str("A"), Str("B"), NaN>>, <<Null, Str("B"), Num(1)>>}

WideTxInputs ==
    {Str("A"), Str(""), Null, Undefined} \X {Str("B"), Str(""), Null, Undefined}
        \X {Num(-1), Num(0), Num(1), NaN, Undefined, Null}

TamperAmounts == {Num(2), Null}
Difficulties == {0, DefaultDifficulty, DigestLen, DigestLen + 1}

Add(inputs) ==
    \E x \in inputs, t \in now..MaxTime : AddTransaction(x[1], x[2], x[3], t)

Mine ==
    \E m \in MinerInputs, t1 \in now..MaxTime :
        \E t2 \in t1..MaxTime : MinePendingTransactions(m, t1, t2)

Queries ==
    \/ ValidateChain
    \/ \E a \in Addresses : GetBalance(a)
    \/ GetFormatted

\* the public operations alone
Next ==
    \/ Add(TxInputs)
    \/ Mine
    \/ Queries

Spec == Init /\ [][Next]_vars

\* addTransaction over every kind of value its argument's fields can hold
NextIntake ==
    \/ Add(WideTxInputs)
    \/ Len(chain) < 2 /\ Mine

IntakeSpec == Init /\ [][NextIntake]_vars

\* the public operations, transaction objects passed twice, and writes to the
\* amounts of committed transactions
Tamper ==
    \E i \in 1..(Len(chain) - 1) :
        \E k \in 1..Len(blockTxs(i)), v \in TamperAmounts : TamperAmount(i, k, v)

AddAgain ==
    \E i \in 1..(Len(chain) - 1) :
        \E k \in 1..Len(blockTxs(i)) : AddTransactionAgain(chain[i + 1].transactions, k)

NextTamper ==
    \/ Add({<<Str("A"), Str("B"), Num(1)>>, <<Str("A"), Str("B"), NaN>>})
    \/ AddAgain
    \/ Mine
    \/ ValidateChain
    \/ Tamper

TamperSpec == Init /\ [][NextTamper]_vars

\* the public operations and writes from outside to the blocks' own fields
WriteBlock ==
    \E i \in 0..(Len(chain) - 1) :
        \/ \E t \in 0..MaxTime : WriteTimestamp(i, t)
        \/ WriteHash(i)

NextCorrupt ==
    \/ Add({<<Str("A"), Str("B"), Num(1)>>})
    \/ \E t1 \in now..MaxTime : MinePendingTransactions(Str("M"), t1, t1)
    \/ ValidateChain
    \/ WriteBlock

CorruptSpec == Init /\ [][NextCorrupt]_vars

\* a later reading of the clock, of two digits
LateTime == 10 + MaxTime

\* the public operations and writes from outside to the hashed fields of
\* the blocks after the genesis block, the stored hashes left alone
WriteField ==
    \E i \in 1..(Len(chain) - 1) :
        \/ \E t \in 0..MaxTime : WriteTimestamp(i, t)
        \/ \E v \in {0, 10 * i + 1} : WriteIndex(i, v)

NextField ==
    \/ Add({<<Str("A"), Str("B"), Num(1)>>, <<Str("A"), Str("B"), NaN>>})
    \/ \E t1 \in (now..MaxTime) \cup {LateTime} : MinePendingTransactions(Str("M"), t1, t1)
    \/ ValidateChain
    \/ Tamper
    \/ WriteField

FieldSpec == Init /\ [][NextField]_vars

\* mining under each difficulty
NextMining ==
    \/ Add({<<Str("A"), Str("B"), Num(1)>>})
    \/ Mine
    \/ \E d \in Difficulties : SetDifficulty(d)

MiningSpec == Init /\ [][NextMining]_vars


\* a block with its nonce set to n and its hash recomputed
atNonce(b, n) ==
    [b EXCEPT !.nonce = n, !.hash = calculateHash([b EXCEPT !.nonce = n], lists)]

\* minePendingTransactions in steps.  While a call is in flight ret.op is
\* "mineBlock", ret.arg the miner's address, ret.bal the nonce of the local
\* block and ret.out the block at each nonce from 0 to MaxNonce, which
\* stands for 2^53: there this.nonce++ leaves the nonce as it is.
Mining == ret.op = "mineBlock"
block == ret.out[ret.bal.n + 1]

\* lines 106-111 and mineBlock up to its loop
StartMining(minerAddress, t1) ==
    /\ ~Mining
    /\ Len(chain) < MaxChain
    /\ now' = t1
    /\ ret' = Ret("mineBlock", minerAddress, FALSE, FALSE, Num(0),
                  <<[msg |-> "Mining block", index |-> Len(chain)]>>,
                  [k \in 1..(MaxNonce + 1) |->
                      atNonce(Block(Len(chain), t1, pendingTransactions,
                                    getLastBlock(ledger).hash, lists), k - 1)])
    /\ UNCHANGED <<ledgerVars, nextId, minedWith, tamper>>

\* one turn of mineBlock's loop: this.nonce++; this.hash = this.calculateHash()
LoopStep ==
    /\ Mining
    /\ Substring0(block.hash, difficulty) # Repeat0(difficulty)
    /\ ret' = [ret EXCEPT !.bal = IF ret.bal.n < MaxNonce THEN Num(ret.bal.n + 1)
                                  ELSE ret.bal]
    /\ UNCHANGED <<ledgerVars, now, nextId, minedWith, tamper>>

\* the loop is left: lines 57 and 117-122
FinishMining(t2) ==
    /\ Mining
    /\ Substring0(block.hash, difficulty) = Repeat0(difficulty)
    /\ chain' = Append(chain, block)
    /\ lists' = Append(lists, <<Transaction(Null, ret.arg, Num(miningReward), t2, nextId)>>)
    /\ pendingTransactions' = Len(lists) + 1
    /\ now' = t2
    /\ ret' = Ret("minePendingTransactions", ret.arg, FALSE, TRUE, Num(0),
                  <<[msg |-> "Mining block", index |-> Len(chain)],
                    [msg |-> "mined! Hash", index |-> Len(chain)]>>, <<>>)
    /\ nextId' = nextId + 1
    /\ minedWith' = Append(minedWith, difficulty)
    /\ UNCHANGED <<difficulty, miningReward, tamper>>

\* mining step by step under each difficulty; the one thread runs the loop
\* until it is left
NextLoop ==
    \/ ~Mining /\ Add({<<Str("A"), Str("B"), Num(1)>>})
    \/ ~Mining /\ \E d \in Difficulties : SetDifficulty(d)
    \/ \E t1 \in now..MaxTime : StartMining(Str("M"), t1)
    \/ LoopStep
    \/ \E t2 \in now..MaxTime : FinishMining(t2)

LoopSpec ==
    /\ Init
    /\ [][NextLoop]_vars
    /\ WF_vars(LoopStep)
    /\ WF_vars(\E t2 \in now..MaxTime : FinishMining(t2))

(***************************************************************************)
(* Properties.                                                             *)
(***************************************************************************)
MineStep == Len(chain') = Len(chain) + 1
newBlockTxs == lists'[chain'[Len(chain')].transactions]
IsReward(tx) == tx.sender = Null

\* C2: with no write from outside, validateChain() returns true, and every
\* block after the genesis block holds its predecessor's hash as previousHash
\* and its own recomputed hash as hash.
C2_ChainLink ==
    /\ validateChain(ledger).val
    /\ \A i \in 2..Len(chain) :
          /\ chain[i].previousHash = chain[i - 1].hash
          /\ chain[i].hash = calculateHash(chain[i], lists)

C2_Witness ==
    /\ Len(chain) = 3
    /\ ret.op = "validateChain"
    /\ ret.val
    /\ blockTxs(1) # <<>>

\* C3: the block a minePendingTransactions(M) call appends does not hold the
\* reward that call creates; after the call the pool is exactly that reward
\* (null sender, recipient M, amount miningReward); the reward stays first in
\* the pool until the next call, whose block holds it as its first
\* transaction; the first block mined holds no reward.
C3_RewardTiming ==
    /\ [][/\ MineStep =>
              /\ Len(lists'[pendingTransactions']) = 1
              /\ lists'[pendingTransactions'][1].sender = Null
              /\ lists'[pendingTransactions'][1].recipient = ret'.arg
              /\ lists'[pendingTransactions'][1].amount = Num(miningReward)
              /\ \A k \in 1..Len(newBlockTxs) :
                    newBlockTxs[k].id # lists'[pendingTransactions'][1].id
              /\ Len(chain) >= 2 => newBlockTxs # <<>> /\ newBlockTxs[1] = pool[1]
              /\ Len(chain) = 1 => \A k \in 1..Len(newBlockTxs) : ~IsReward(newBlockTxs[k])
          /\ ~MineStep /\ Len(chain) >= 2 =>
              lists'[pendingTransactions'][1] = pool[1]]_vars
    /\ [](Len(chain) >= 2 => pool # <<>> /\ IsReward(pool[1]))

C3_Witness ==
    /\ Len(chain) = 3
    /\ ret.op = "minePendingTransactions"
    /\ blockTxs(2)[1] = [sender |-> Null, recipient |-> Str("M"),
                         amount |-> Num(100), timestamp |-> blockTxs(2)[1].timestamp,
                         id |-> blockTxs(2)[1].id]
    /\ \A k \in 1..Len(blockTxs(1)) : ~IsReward(blockTxs(1)[k])
    /\ pool[1].id \notin {blockTxs(2)[k].id : k \in 1..Len(blockTxs(2))}

\* C8: the chain is never empty; its first block has index 0, previousHash
\* "0", no transactions, nonce 0 and the hash of those fields; a chain of the
\* genesis block alone validates.
C8_Genesis ==
    /\ Len(chain) >= 1
    /\ chain[1].index = 0
    /\ chain[1].previousHash = <<"0">>
    /\ blockTxs(0) = <<>>
    /\ chain[1].nonce = 0
    /\ chain[1].hash = calculateHash(chain[1], lists)
    /\ Len(chain) = 1 => validateChain(ledger).val

C8_Witness ==
    /\ Len(chain) = 1
    /\ pool # <<>>
    /\ ret.op = "validateChain"
    /\ ret.val

\* C9: a successful addTransaction(tx) appends tx at the end of the pool and
\* changes nothing else; the block minePendingTransactions appends holds the
\* pool as it stood at the call, the same transactions in the same order.
C9_Fifo ==
    [][/\ ret'.op = "addTransaction" /\ ~ret'.threw =>
            /\ lists' = [lists EXCEPT ![pendingTransactions] = Append(pool, ret'.arg)]
            /\ UNCHANGED <<chain, pendingTransactions, difficulty, miningReward>>
       /\ MineStep =>
            /\ newBlockTxs = pool
            /\ \A i \in 1..Len(chain) : lists'[chain'[i].transactions] = blockTxs(i - 1)]_vars

C9_Witness ==
    /\ Len(chain) = 3
    /\ Len(blockTxs(1)) = 2
    /\ blockTxs(1)[1].id < blockTxs(1)[2].id
    /\ Len(blockTxs(2)) = 2
    /\ IsReward(blockTxs(2)[1])
    /\ ~IsReward(blockTxs(2)[2])

\* C1: after one write to the amount of a transaction in block i, the stored
\* hash left alone, validateChain() returns false and reports the hash
\* mismatch at block i.
C1_TamperDetected ==
    Len(tamper) = 1 =>
        /\ ~validateChain(ledger).val
        /\ validateChain(ledger).log =
              <<[msg |-> "data corrupted - hash mismatch", index |-> tamper[1].block]>>

\* the blocks that hold the transaction object with this identity
holders(id) ==
    {i \in 1..(Len(chain) - 1) : \E k \in 1..Len(blockTxs(i)) : blockTxs(i)[k].id = id}

\* What the code does detect: when JSON.stringify writes the old and the new
\* amount differently, validateChain() returns false and reports the hash
\* mismatch at the first block that holds the written object.
C1_DetectedWhenJsonDiffers ==
    Len(tamper) = 1 /\ JsonMember("amount", tamper[1].old) # JsonMember("amount", tamper[1].new) =>
        /\ ~validateChain(ledger).val
        /\ \E i \in holders(tamper[1].id) :
              /\ \A j \in holders(tamper[1].id) : i <= j
              /\ validateChain(ledger).log =
                    <<[msg |-> "data corrupted - hash mismatch", index |-> i]>>

\* the two ways the write goes unreported at its block
C1_SameJson ==
    /\ Len(tamper) = 1
    /\ tamper[1].old = NaN
    /\ tamper[1].new = Null
    /\ validateChain(ledger).val

C1_SharedObject ==
    /\ Len(tamper) = 1
    /\ tamper[1].old = Num(1)
    /\ tamper[1].block = 2
    /\ validateChain(ledger).log =
          <<[msg |-> "data corrupted - hash mismatch", index |-> 1]>>

NonNull(v) == v.t \notin {"null", "undefined"}

\* C4: addTransaction(tx) accepts tx exactly when sender and recipient are
\* non-null and amount > 0; otherwise it throws and leaves the pool and the
\* chain unchanged.
C4_AcceptsExactly ==
    [][ret'.op = "addTransaction" =>
          /\ ~ret'.threw <=> /\ NonNull(ret'.arg.sender)
                             /\ NonNull(ret'.arg.recipient)
                             /\ GreaterZero(ret'.arg.amount)
          /\ ret'.threw => UNCHANGED <<chain, pendingTransactions, lists>>]_vars

\* C5: every transaction in the pool has a non-null recipient and an
\* amount > 0, and one with a null sender is the reward of the latest
\* minePendingTransactions call (the first of the pool).
C5_PoolInvariant ==
    \A k \in 1..Len(pool) :
        /\ NonNull(pool[k].recipient)
        /\ GreaterZero(pool[k].amount)
        /\ pool[k].sender = Null => k = 1 /\ Len(chain) >= 2

\* C6: every block minePendingTransactions appended has a hash whose first d
\* characters are '0', d the difficulty it was mined with, and that is the
\* hash of its fields.
C6_MiningPostcondition ==
    /\ Len(minedWith) = Len(chain) - 1
    /\ \A i \in 2..Len(chain) :
          /\ Substring0(chain[i].hash, minedWith[i - 1]) = Repeat0(minedWith[i - 1])
          /\ Len(Substring0(chain[i].hash, minedWith[i - 1])) = minedWith[i - 1]
          /\ chain[i].hash = calculateHash(chain[i], lists)

C6_Witness ==
    /\ Len(chain) = 3
    /\ minedWith[1] = DigestLen
    /\ chain[2].nonce > 0
    /\ minedWith[2] = DefaultDifficulty
    /\ chain[3].hash[DigestLen] # "0"

\* the committed transactions, in chain order
RECURSIVE committedFrom(_)
committedFrom(i) ==
    IF i > Len(chain) THEN <<>> ELSE lists[chain[i].transactions] \o committedFrom(i + 1)

committed == committedFrom(1)

RECURSIVE SumAmounts(_)
SumAmounts(txs) ==
    IF txs = <<>> THEN Num(0) ELSE JsAdd(txs[1].amount, SumAmounts(Tail(txs)))

received(a) == SumAmounts(SelectSeq(committed, LAMBDA tx : tx.recipient = a))
sent(a) == SumAmounts(SelectSeq(committed, LAMBDA tx : tx.sender = a))

\* C7: getBalance(a) is the sum of the committed amounts received by a less
\* the sum of the committed amounts sent by a (the pool counts for nothing);
\* a miner M in no other transaction has (n - 1) * miningReward after n >= 1
\* calls minePendingTransactions(M); runDemo's ledger gives MinerX 115.
C7_BalanceReplay ==
    /\ \A a \in Addresses : getBalance(ledger, a) = JsSub(received(a), sent(a))
    /\ (/\ Len(chain) >= 2
        /\ \A k \in 1..Len(committed) :
              IsReward(committed[k]) => committed[k].recipient = Str("M")
        /\ pool[1].recipient = Str("M"))
       => getBalance(ledger, Str("M")) = Num((Len(chain) - 2) * miningReward)
    /\ getBalance(runDemo, Str("MinerX")) = Num(115)

C7_Witness ==
    /\ Len(chain) = 3
    /\ ret.op = "getBalance"
    /\ ret.arg = Str("M")
    /\ ret.bal = Num(100)
    /\ pool[1].recipient = Str("M")
    /\ getBalance(ledger, Str("A")) = Num(-2)
    /\ getBalance(ledger, Str("B")) = Num(2)

\* C10: a validateChain() call, whatever it returns, leaves every field of
\* the ledger as it was and does not throw; called again at once it returns
\* the same.
C10_ValidateReadOnly ==
    [][ret'.op = "validateChain" =>
          /\ UNCHANGED <<chain, pendingTransactions, lists, difficulty, miningReward>>
          /\ ~ret'.threw
          /\ ret.op = "validateChain" => ret'.val = ret.val /\ ret'.log = ret.log]_vars

C10_Witness ==
    /\ ret.op = "validateChain"
    /\ ~ret.val
    /\ Len(tamper) = 1
    /\ Len(chain) = 3

\* the block chain[i] as its constructor left it, before mineBlock
constructed(i) ==
    Block(chain[i].index, chain[i].timestamp, chain[i].transactions,
          chain[i].previousHash, lists)

\* C11: every mined block holds the least nonce n >= 0 whose hash has the
\* leading zeros of the difficulty it was mined with (0 when the constructed
\* hash qualifies, as at difficulty 0), and mining a block of the same index,
\* timestamp, transactions and previousHash again ends with the same nonce
\* and hash.
C11_LeastNonce ==
    \A i \in 2..Len(chain) :
        /\ constructed(i).nonce = 0
        /\ Substring0(chain[i].hash, minedWith[i - 1]) = Repeat0(minedWith[i - 1])
        /\ \A n \in 0..(chain[i].nonce - 1) :
              Substring0(atNonce(constructed(i), n).hash, minedWith[i - 1])
                  # Repeat0(minedWith[i - 1])
        /\ minedWith[i - 1] = 0 => chain[i].nonce = 0
        /\ mineBlock(constructed(i), minedWith[i - 1], lists) = chain[i]

C11_Witness ==
    /\ Len(chain) = 3
    /\ minedWith[1] = DigestLen
    /\ chain[2].nonce >= 2
    /\ minedWith[2] = 0
    /\ chain[3].nonce = 0

\* C12: whatever difficulty the ledger is set to, a minePendingTransactions
\* call in flight leaves mineBlock's loop and returns, its block appended.
C12_MiningTerminates == Mining ~> (ret.op = "minePendingTransactions")

\* What the code does: with a difficulty up to the digest's length the call
\* returns.
C12_TerminatesUpToDigestLength ==
    (Mining /\ difficulty <= DigestLen) ~> (ret.op = "minePendingTransactions")

\* above the digest's length the loop goes on at the last nonce
C12_NeverReturns ==
    /\ Mining
    /\ difficulty = DigestLen + 1
    /\ block.nonce = MaxNonce

\* the atomic call and the call in steps append the same block
C12_SameBlock ==
    [][ret'.op = "minePendingTransactions" =>
          /\ chain' = minePendingTransactions(ledger, ret.arg, block.timestamp,
                                              now', nextId).chain
          /\ lists' = minePendingTransactions(ledger, ret.arg, block.timestamp,
                                              now', nextId).lists]_vars

\* the two tests of validateChain at the block stored at chain[i]
hashFails(i) == chain[i].hash # calculateHash(chain[i], lists)
linkFails(i) == chain[i].previousHash # chain[i - 1].hash
failing == {i \in 2..Len(chain) : hashFails(i) \/ linkFails(i)}

\* C13: validateChain() returns true exactly when every block after the
\* genesis block passes both tests (the genesis block's hash and every
\* difficulty prefix go untested); when it returns false its one report is at
\* the first failing block, the hash mismatch before the broken link.
C13_Verdict ==
    /\ validateChain(ledger).val <=> failing = {}
    /\ \A i \in failing :
          (\A j \in failing : i <= j) =>
              validateChain(ledger).log =
                 <<[msg |-> IF hashFails(i) THEN "data corrupted - hash mismatch"
                            ELSE "has broken chain link",
                    index |-> i - 1]>>
    /\ ret.op = "validateChain" =>
          /\ ret.val = validateChain(ledger).val
          /\ ret.log = validateChain(ledger).log

C13_Witness ==
    /\ ret.op = "validateChain"
    /\ ~ret.val
    /\ Len(chain) = 3
    /\ ~hashFails(2)
    /\ ~linkFails(2)
    /\ hashFails(3)
    /\ linkFails(3)
    /\ ret.log = <<[msg |-> "data corrupted - hash mismatch", index |-> 2]>>

\* further cases of C13 that occur: a broken link reported; a genesis block
\* whose hash is not that of its fields and a last block whose hash has no
\* zero prefix, with validateChain() true
C13_BrokenLinkReported ==
    /\ ret.op = "validateChain"
    /\ ret.log = <<[msg |-> "has broken chain link", index |-> 2]>>

C13_GenesisUntested ==
    /\ ret.op = "validateChain"
    /\ ret.val
    /\ Len(chain) = 3
    /\ chain[1].hash # calculateHash(chain[1], lists)

C13_PrefixUntested ==
    /\ ret.op = "validateChain"
    /\ ret.val
    /\ Len(chain) = 3
    /\ minedWith[2] = DefaultDifficulty
    /\ Substring0(chain[3].hash, DefaultDifficulty) # Repeat0(DefaultDifficulty)

\* C14: a minePendingTransactions call lengthens the chain by one block and
\* leaves the blocks it had as they were, transactions included; the new
\* block's index is the old length and its previousHash the old last block's
\* stored hash.  The other public operations leave the chain as it is.  So
\* chain[i].index = i throughout.
C14_AppendOnly ==
    /\ [][/\ ret'.op = "minePendingTransactions" =>
              /\ Len(chain') = Len(chain) + 1
              /\ SubSeq(chain', 1, Len(chain)) = chain
              /\ \A i \in 1..Len(chain) :
                    lists'[chain'[i].transactions] = lists[chain[i].transactions]
              /\ chain'[Len(chain')].index = Len(chain)
              /\ chain'[Len(chain')].previousHash = chain[Len(chain)].hash
          /\ ret'.op \in {"addTransaction", "validateChain", "getBalance", "getFormatted"} =>
              /\ chain' = chain
              /\ \A i \in 1..Len(chain) :
                    lists'[chain'[i].transactions] = lists[chain[i].transactions]]_vars
    /\ [](\A i \in 1..Len(chain) : chain[i].index = i - 1)

C14_Witness ==
    /\ Len(chain) = 3
    /\ ret.op = "minePendingTransactions"
    /\ chain[3].index = 2
    /\ chain[3].previousHash = chain[2].hash
    /\ Len(blockTxs(1)) = 2

\* C15: the block a minePendingTransactions call appends holds the pool's
\* own list, and the pool is a new list from then on: no block's list is the
\* live pool, so an addTransaction leaves every block, its transactions and
\* its hash as they were, and validateChain() stays true.
C15_NoAliasing ==
    /\ [][/\ MineStep =>
              /\ chain'[Len(chain')].transactions = pendingTransactions
              /\ pendingTransactions' \notin DOMAIN lists
          /\ ret'.op = "addTransaction" =>
              /\ chain' = chain
              /\ \A i \in 1..Len(chain) :
                    lists'[chain[i].transactions] = lists[chain[i].transactions]]_vars
    /\ [](/\ \A i \in 1..Len(chain) : chain[i].transactions # pendingTransactions
          /\ validateChain(ledger).val)

C15_Witness ==
    /\ Len(chain) = 2
    /\ ret.op = "addTransaction"
    /\ ~ret.threw
    /\ Len(pool) = 2
    /\ pool[2] = ret.arg
    /\ Len(blockTxs(1)) = 1
    /\ chain[2].transactions # pendingTransactions

\* every transaction the ledger holds, committed or pending
held == committed \o pool

\* the identity of the reward the k-th minePendingTransactions call issued
rewardId(k) ==
    IF k < Len(chain) - 1 THEN blockTxs(k + 1)[1].id ELSE pool[1].id

\* C16: every accepted transaction and every reward is held exactly once, in
\* the pool or in one block; a pending transaction stays in the pool until
\* the next minePendingTransactions call, whose block takes it; so the block
\* of the (k+1)-th call holds what was accepted or issued between the k-th
\* call and the (k+1)-th, and nothing else.
C16_ExactlyOnce ==
    /\ [](/\ Len(held) = nextId - 1
          /\ \A id \in 1..(nextId - 1) :
                Cardinality({k \in 1..Len(held) : held[k].id = id}) = 1
          /\ \A j \in 1..(Len(chain) - 1) : \A k \in 1..Len(blockTxs(j)) :
                /\ blockTxs(j)[k].id < rewardId(j)
                /\ j > 1 => blockTxs(j)[k].id >= rewardId(j - 1)
          /\ Len(chain) > 1 =>
                \A k \in 1..Len(pool) : pool[k].id >= rewardId(Len(chain) - 1))
    /\ [][/\ MineStep => newBlockTxs = pool
          /\ ~MineStep => SubSeq(lists'[pendingTransactions'], 1, Len(pool)) = pool
          /\ \A i \in 1..Len(chain) :
                lists'[chain'[i].transactions] = lists[chain[i].transactions]]_vars

C16_Witness ==
    /\ Len(chain) = 3
    /\ Len(blockTxs(1)) = 2
    /\ Len(blockTxs(2)) = 2
    /\ Len(pool) = 2
    /\ nextId = 7
    /\ rewardId(1) = 3
    /\ rewardId(2) = 5

\* the writes made from outside to a field of block i (pos 0) or of its
\* k-th transaction (pos k), and whether the field is now other than it was
\* when the block was mined
writesTo(i, field, k) ==
    {w \in 1..Len(tamper) :
        tamper[w].block = i /\ tamper[w].field = field /\ tamper[w].pos = k}

changedField(i, field, k, current) ==
    \E w \in writesTo(i, field, k) :
        /\ \A u \in writesTo(i, field, k) : w <= u
        /\ tamper[w].old # current

changed(i) ==
    \/ changedField(i, "index", 0, Num(chain[i + 1].index))
    \/ changedField(i, "timestamp", 0, Num(chain[i + 1].timestamp))
    \/ \E k \in 1..Len(blockTxs(i)) : changedField(i, "amount", k, blockTxs(i)[k].amount)

\* C17: a block after the genesis block with a hashed field, or several,
\* changed and its stored hash left alone hashes to another value than the
\* stored one (the hashed string tells any two different blocks apart), and
\* validateChain() reports a hash mismatch.
C17_HashCoversFields ==
    \A i \in 1..(Len(chain) - 1) :
        changed(i) =>
            /\ hashFails(i + 1)
            /\ ~validateChain(ledger).val
            /\ validateChain(ledger).log[1].msg = "data corrupted - hash mismatch"

\* the two ways a changed block keeps its hash: index and timestamp are
\* joined with nothing between them, and JSON.stringify writes NaN as null
C17_IndexTimestampRegrouped ==
    /\ Len(chain) = 2
    /\ Len(tamper) = 2
    /\ chain[2].index = 11
    /\ chain[2].timestamp = LateTime - 10
    /\ ret.op = "validateChain"
    /\ ret.val

C17_NaNWrittenAsNull ==
    /\ Len(tamper) = 1
    /\ tamper[1].old = NaN
    /\ tamper[1].new = Null
    /\ ret.op = "validateChain"
    /\ ret.val

\* What the code does detect: a changed block whose hashed string is no
\* longer the one it was mined with fails the hash test.
C17_DetectedWhenStringDiffers ==
    \A i \in 1..(Len(chain) - 1) :
        (changed(i) /\ ~hashFails(i + 1)) =>
            \/ \E w \in 1..Len(tamper) : tamper[w].old = NaN /\ tamper[w].new = Null
            \/ /\ NumToString(chain[i + 1].index) \o NumToString(chain[i + 1].timestamp)
                    = NumToString(i) \o NumToString(LateTime)
               /\ chain[i + 1].index # i

\* the ledger after the step
ledgerAfter ==
    [chain |-> chain', difficulty |-> difficulty',
     pendingTransactions |-> pendingTransactions', lists |-> lists',
     miningReward |-> miningReward']

\* C18: on a chain that validateChain() finds corrupted, addTransaction and
\* minePendingTransactions still succeed (only an invalid transaction is
\* refused; the block is appended) and validateChain() still returns false
\* after them, with the same report: no public operation repairs the
\* corrupted block.
C18_CorruptionPersists ==
    [][(/\ ~validateChain(ledger).val
        /\ ret'.op \in {"addTransaction", "minePendingTransactions", "validateChain"}) =>
          /\ ~validateChain(ledgerAfter).val
          /\ validateChain(ledgerAfter).log = validateChain(ledger).log
          /\ ret'.threw <=> (ret'.op = "addTransaction" /\ InvalidTransaction(ret'.arg))
          /\ ret'.op = "minePendingTransactions" => Len(chain') = Len(chain) + 1]_vars

C18_Witness ==
    /\ ret.op = "minePendingTransactions"
    /\ Len(chain) = 3
    /\ Len(tamper) = 1
    /\ tamper[1].block = 1
    /\ hashFails(2)
    /\ ~hashFails(3)
    /\ ~linkFails(3)
    /\ ~validateChain(ledger).val
    /\ validateChain(ledger).log = <<[msg |-> "data corrupted - hash mismatch", index |-> 1]>>

\* the sum of getBalance(a) over the addresses, and the sum of the amounts
\* of the committed rewards
RECURSIVE sumBalances(_)
sumBalances(as) ==
    IF as = {} THEN Num(0)
    ELSE JsAdd(getBalance(ledger, CHOOSE a \in as : TRUE),
               sumBalances(as \ {CHOOSE a \in as : TRUE}))

rewardsCommitted == SelectSeq(committed, IsReward)

\* C19: the balances of all the non-null addresses add up to the amounts of
\* the committed rewards, which are (n - 1) * miningReward after n >= 1
\* minePendingTransactions calls and 0 before.
C19_Conservation ==
    /\ sumBalances(Addresses) = SumAmounts(rewardsCommitted)
    /\ SumAmounts(rewardsCommitted) =
          Num((IF Len(chain) > 2 THEN Len(chain) - 2 ELSE 0) * miningReward)

\* What the code does conserve: the total is the rewards' when every
\* committed amount is a number and every committed reward went to an address.
C19_ConservedForNumbersAndAddresses ==
    (\A k \in 1..Len(committed) :
        /\ committed[k].amount.t = "number"
        /\ committed[k].recipient # Null)
    => C19_Conservation

\* the two ways the total is lost: a reward paid to null, an amount of NaN
C19_RewardToNull ==
    /\ Len(chain) = 3
    /\ \A k \in 1..Len(committed) : committed[k].amount.t = "number"
    /\ blockTxs(2)[1].recipient = Null
    /\ sumBalances(Addresses) = Num(0)
    /\ SumAmounts(rewardsCommitted) = Num(100)

C19_NaNTotal ==
    /\ \A k \in 1..Len(committed) : committed[k].recipient # Null
    /\ sumBalances(Addresses) = NaN
    /\ SumAmounts(rewardsCommitted) = Num(100)

=============================================================================
